---- MODULE Spec2Model ----
(***************************************************************************)
(* A model of holoviews/streams.py: the Stream class (its class-wide       *)
(* registry, update, trigger, value), the Rename preprocessor and the      *)
(* PositionX / PositionY / PositionXY variants.                            *)
(*                                                                         *)
(* A Python dict is a function from its keys to its values; a list is a    *)
(* sequence; an object is its index in the heap `streams`.  A number that  *)
(* is a parameter value is a natural number, and NotNumber stands for any  *)
(* value param.Number rejects (a string, say).                             *)
(***************************************************************************)
EXTENDS Integers, Sequences, FiniteSets, TLC

\* ------------------------------------------------------------------ bounds
MaxStreams == 2
MaxVal == 1
MaxSubs == 2
MaxUuid == 3

\* --------------------------------------------------------- generic helpers
EmptyDict == [k \in {} |-> 0]

Range(seq) == {seq[i] : i \in DOMAIN seq}

\* dict(pairs): the pairs are inserted in order, a later pair overwriting an
\* earlier one with the same key.
RECURSIVE DictFromPairs(_)
DictFromPairs(pairs) ==
    IF pairs = <<>> THEN EmptyDict
    ELSE LET n == Len(pairs)
             front == DictFromPairs(SubSeq(pairs, 1, n - 1))
             k == pairs[n][1]
         IN [j \in DOMAIN front \cup {k} |-> IF j = k THEN pairs[n][2] ELSE front[j]]

\* d.get(k, k)
GetOrSelf(d, k) == IF k \in DOMAIN d THEN d[k] ELSE k

\* The orders in which a set can be iterated.
Perms(S) == {p \in [1..Cardinality(S) -> S] : Range(p) = S}

\* The number of times c occurs in seq.
Count(seq, c) == Cardinality({i \in DOMAIN seq : seq[i] = c})

\* ----------------------------------------------------- the declared classes
Classes == {"Stream", "PositionX", "PositionY", "PositionXY"}

\* get_param_values() without 'name': the data parameters, sorted by name.
SortedFields(cls) ==
    CASE cls = "Stream" -> <<>>
      [] cls = "PositionX" -> <<"x">>
      [] cls = "PositionY" -> <<"y">>
      [] cls = "PositionXY" -> <<"x", "y">>

DataFields(cls) == Range(SortedFields(cls))

\* self.params(): the declared parameters, the implicit 'name' included.
Params(cls) == DataFields(cls) \cup {"name"}

\* The default of every declared number.
DefaultVal == 0

\* A value param.Number does not accept.
NotNumber == -1

IsNumber(v) == v >= 0

Numbers == 0..MaxVal

\* The declarations: every parameter is declared constant=True.
DeclaredConstant == [c \in Classes |-> [f \in Params(c) |-> TRUE]]

\* --------------------------------------------------------- preprocessors
\* Preprocessor.__call__
PreprocessorCall(p, params) == params

\* A Rename that keeps only the keys it has an alias for.
RenameCallAliasedOnly(p, params, order) ==
    [k \in {p.mapping[j] : j \in DOMAIN p.mapping \cap DOMAIN params} |->
        params[CHOOSE j \in DOMAIN p.mapping \cap DOMAIN params : p.mapping[j] = k]]

\* Rename.__call__: the comprehension inserts the renamed keys in the dict's
\* iteration order, which `order` (a sequence of all keys) gives.
RenameCall(p, params, order) ==
    LET ks == SelectSeq(order, LAMBDA k : k \in DOMAIN params)
    IN DictFromPairs([i \in DOMAIN ks |-> <<GetOrSelf(p.mapping, ks[i]), params[ks[i]]>>])

Call(p, params, order) ==
    IF p.cls = "Rename" THEN RenameCall(p, params, order)
    ELSE PreprocessorCall(p, params)

\* A loop that applies the preprocessors from the last to the first.
RECURSIVE ApplyAllReversed(_, _, _)
ApplyAllReversed(preps, params, order) ==
    IF preps = <<>> THEN params
    ELSE Call(Head(preps), ApplyAllReversed(Tail(preps), params, order), order)

\* The loop of Stream.value over the preprocessors.
RECURSIVE ApplyAll(_, _, _)
ApplyAll(preps, params, order) ==
    IF preps = <<>> THEN params
    ELSE ApplyAll(Tail(preps), Call(Head(preps), params, order), order)

\* Stream.value
Value(st, order) ==
    LET fs == SortedFields(st.cls)
        remapped == DictFromPairs([i \in DOMAIN fs |->
                        <<GetOrSelf(st.mapping, fs[i]), st.vals[fs[i]]>>])
    IN ApplyAll(st.preprocessors, remapped, order)

\* A merge in which the first stream to give a key keeps it.
RECURSIVE TriggerUnionFirstWins(_, _, _)
TriggerUnionFirstWins(ss, strs, order) ==
    IF ss = <<>> THEN EmptyDict
    ELSE LET n == Len(ss)
             front == TriggerUnionFirstWins(SubSeq(ss, 1, n - 1), strs, order)
             last == Value(strs[ss[n]], order)
         IN [k \in DOMAIN front \cup DOMAIN last |->
                IF k \in DOMAIN front THEN front[k] ELSE last[k]]

\* Stream.trigger, lines 66-68: the values of the streams merged in list order,
\* a later stream's item overwriting an earlier one's.
RECURSIVE TriggerUnion(_, _, _)
TriggerUnion(ss, strs, order) ==
    IF ss = <<>> THEN EmptyDict
    ELSE LET n == Len(ss)
             front == TriggerUnion(SubSeq(ss, 1, n - 1), strs, order)
             last == Value(strs[ss[n]], order)
         IN [k \in DOMAIN front \cup DOMAIN last |->
                IF k \in DOMAIN last THEN last[k] ELSE front[k]]

\* stream.subscribers: the list object the stream holds, which is the one
\* default list of __init__ when no subscribers argument was given.
Subscribers(st, dflt) == IF st.usesDefault THEN dflt ELSE st.subs

\* Groups that leave the hidden subscribers out.
RECURSIVE GroupsNoHidden(_, _, _)
GroupsNoHidden(ss, strs, dflt) ==
    IF ss = <<>> THEN <<>>
    ELSE <<Subscribers(strs[Head(ss)], dflt)>> \o GroupsNoHidden(Tail(ss), strs, dflt)

\* Stream.trigger, line 70: one list per stream.
RECURSIVE Groups(_, _, _)
Groups(ss, strs, dflt) ==
    IF ss = <<>> THEN <<>>
    ELSE <<Subscribers(strs[Head(ss)], dflt) \o strs[Head(ss)].hidden>>
            \o Groups(Tail(ss), strs, dflt)

\* Stream.trigger, line 71: the set of the subscribers of all the groups.
SubscriberSet(groups) == UNION {Range(groups[i]) : i \in DOMAIN groups}

\* ------------------------------------------------------------ the state
VARIABLES
    streams,      \* the heap of constructed Stream objects, by identity
    registry,     \* Stream.registry: the sequence of its (uuid, stream) items
    defaultSubs,  \* the list that is the default of __init__'s subscribers
    constant,     \* the constant flag of each class's Parameter objects
    nextUuid,     \* the next token uuid4 hands out
    hashOrder,    \* the iteration order of this build's dicts
    pc,           \* idle, deliver (inside trigger's loop), returned, raised
    call,         \* the call in progress, with the state it started from
    union,        \* trigger's local: the merged mapping
    pending,      \* trigger's local: the subscribers still to be called
    invoked       \* the subscriber calls made by the call in progress

vars == <<streams, registry, defaultSubs, constant, nextUuid, hashOrder,
          pc, call, union, pending, invoked>>

\* The callables there are: those users subscribe, and those installed as
\* hidden subscribers.
UserCallables == {"f"}
HiddenCallables == {"g"}
Callables == UserCallables \cup HiddenCallables
Sources == {"None"}
KeyOrders == {<<"posx", "posy", "x", "y", "z">>}

NoCall == [op |-> "none"]

\* The entries of all the subscriber lists there are.
RECURSIVE TotalSubs(_)
TotalSubs(strs) ==
    IF strs = <<>> THEN 0
    ELSE Len(Head(strs).subs) + Len(Head(strs).hidden) + TotalSubs(Tail(strs))

Init ==
    /\ streams = <<>>
    /\ registry = <<>>
    /\ defaultSubs = <<>>
    /\ constant = DeclaredConstant
    /\ nextUuid = 1
    /\ hashOrder \in KeyOrders
    /\ pc = "idle"
    /\ call = NoCall
    /\ union = EmptyDict
    /\ pending = {}
    /\ invoked = <<>>

\* ------------------------------------------------------------ the inputs
InputValues == Numbers \cup {NotNumber}

\* The keyword arguments of an update: none, one or two of the keys.
KwArgs ==
    UNION {[K -> Numbers] : K \in {{}, {"x"}, {"y"}, {"x", "y"}}}
        \cup {[x |-> NotNumber], [x |-> MaxVal, y |-> NotNumber], [x |-> MaxVal, z |-> MaxVal]}

NoMapping == [kind |-> "none", d |-> EmptyDict, s |-> ""]

ScalarMapping(s) == [kind |-> "scalar", d |-> EmptyDict, s |-> s]

DictMapping(d) == [kind |-> "dict", d |-> d, s |-> ""]

Rename(mapping) == [cls |-> "Rename", mapping |-> mapping]

\* The constructor calls made: the class, the mapping and the preprocessors.
CtorCalls ==
    {[cls |-> "PositionX", mapping |-> NoMapping, preprocessors |-> <<>>],
     [cls |-> "PositionX", mapping |-> ScalarMapping("posx"), preprocessors |-> <<>>],
     [cls |-> "PositionXY", mapping |-> NoMapping, preprocessors |-> <<>>],
     [cls |-> "PositionXY", mapping |-> DictMapping([x |-> "y"]), preprocessors |-> <<>>],
     [cls |-> "PositionXY", mapping |-> ScalarMapping("posx"), preprocessors |-> <<>>]}

\* The parameter values given to a constructor.
InitParams == {EmptyDict, [x |-> MaxVal]}

\* ------------------------------------------------------- Stream.__init__
\* A constructor that drops a scalar mapping.
InitMappingDropsScalar(cls, mapping) ==
    IF mapping.kind = "dict" THEN [ok |-> TRUE, mapping |-> mapping.d]
    ELSE [ok |-> mapping.kind = "none" \/ Cardinality(Params(cls)) = 2,
          mapping |-> EmptyDict]

\* A constructor that takes a scalar mapping for every field of any class.
InitMappingAnyScalar(cls, mapping) ==
    IF mapping.kind = "dict" THEN [ok |-> TRUE, mapping |-> mapping.d]
    ELSE [ok |-> TRUE,
          mapping |-> IF mapping.kind = "none" THEN EmptyDict
                      ELSE [k \in Params(cls) \ {"name"} |-> mapping.s]]

\* Lines 116-124: the mapping the stream keeps, or the exception of line 124.
InitMapping(cls, mapping) ==
    IF mapping.kind = "none" THEN [ok |-> TRUE, mapping |-> EmptyDict]
    ELSE IF mapping.kind = "dict" THEN [ok |-> TRUE, mapping |-> mapping.d]
    ELSE IF Cardinality(Params(cls)) = 2
         THEN [ok |-> TRUE, mapping |-> [k \in Params(cls) \ {"name"} |-> mapping.s]]
         ELSE [ok |-> FALSE, mapping |-> EmptyDict]

\* Line 127, Parameterized.__init__(**params): a declared parameter takes the
\* value, which its type may reject; any other keyword becomes a plain
\* attribute, with a warning.
InitValues(cls, params) ==
    LET bad == {k \in DOMAIN params \cap Params(cls) : ~IsNumber(params[k])}
    IN [ok |-> bad = {},
        vals |-> [f \in DataFields(cls) |->
                     IF f \in DOMAIN params THEN params[f] ELSE DefaultVal]]

\* registry[uuid] = stream on an OrderedDict: a new key is appended, an
\* existing key keeps its place and takes the new value.
RegistrySet(reg, uuid, obj) ==
    IF \E i \in DOMAIN reg : reg[i].uuid = uuid
    THEN [i \in DOMAIN reg |-> IF reg[i].uuid = uuid
                               THEN [uuid |-> uuid, obj |-> obj] ELSE reg[i]]
    ELSE Append(reg, [uuid |-> uuid, obj |-> obj])

\* A token that is the same for every stream.
Uuid4Same(next) == 1

\* uuid.uuid4().hex: a token no earlier call returned.
Uuid4(next) == next

Construct(cls, mapping, source, subscribers, preprocessors, params) ==
    /\ pc = "idle"
    /\ Len(streams) < MaxStreams
    /\ nextUuid <= MaxUuid
    /\ LET m == InitMapping(cls, mapping)
           v == InitValues(cls, params)
           obj == Len(streams) + 1
           st == [cls |-> cls, source |-> source,
                  usesDefault |-> ~subscribers.given, subs |-> subscribers.list,
                  hidden |-> <<>>, preprocessors |-> preprocessors,
                  mapping |-> m.mapping, uuid |-> Uuid4(nextUuid), vals |-> v.vals]
       IN /\ call' = [op |-> "init", cls |-> cls, mapping |-> mapping]
          /\ IF ~m.ok
             THEN /\ pc' = "raised"
                  /\ UNCHANGED <<streams, registry, nextUuid>>
             ELSE IF ~v.ok
             THEN /\ pc' = "raised"
                  /\ nextUuid' = nextUuid + 1
                  /\ UNCHANGED <<streams, registry>>
             ELSE /\ pc' = "returned"
                  /\ nextUuid' = nextUuid + 1
                  /\ streams' = Append(streams, st)
                  /\ registry' = RegistrySet(registry, st.uuid, obj)
    /\ UNCHANGED <<defaultSubs, constant, hashOrder, union, pending, invoked>>

\* --------------------------------------------------------- Stream.update
\* Lines 85-86: every parameter's constant flag is cleared.
Lift(flags) == [f \in DOMAIN flags |-> FALSE]

\* A restore that leaves the flags as they are.
RestoreNothing(flags, saved) == flags

\* Lines 88-89: every parameter's constant flag is set back to the saved one.
Restore(flags, saved) == [f \in DOMAIN flags |-> saved[f]]

\* An update that sets its first keyword only.
SetParamFirstOnly(cls, vals, kwargs, order) ==
    IF order = <<>> THEN [ok |-> TRUE, vals |-> vals]
    ELSE LET k == Head(order)
         IN IF k \notin Params(cls) \/ ~IsNumber(kwargs[k])
            THEN [ok |-> FALSE, vals |-> vals]
            ELSE [ok |-> TRUE, vals |-> [vals EXCEPT ![k] = kwargs[k]]]

\* Line 87, set_param(**kwargs): the keywords are taken in the order the dict
\* gives them; a keyword that names no parameter, or a value the parameter's
\* type rejects, raises, and the keywords before it stay set.
RECURSIVE SetParam(_, _, _, _)
SetParam(cls, vals, kwargs, order) ==
    IF order = <<>> THEN [ok |-> TRUE, vals |-> vals]
    ELSE LET k == Head(order)
         IN IF k \notin Params(cls) \/ ~IsNumber(kwargs[k])
            THEN [ok |-> FALSE, vals |-> vals]
            ELSE SetParam(cls, [vals EXCEPT ![k] = kwargs[k]], kwargs, Tail(order))

\* An update that goes on to trigger with the flags still lifted.
UpdateParamsStillLifted(strs, consts, s, kwargs, order) ==
    LET cls == strs[s].cls
        res == SetParam(cls, strs[s].vals, kwargs, order)
    IN [ok |-> res.ok,
        streams |-> [strs EXCEPT ![s].vals = res.vals],
        constant |-> [consts EXCEPT ![cls] = Lift(consts[cls])]]

\* Lines 83-89: the state update leaves, and whether line 87 raised.
UpdateParams(strs, consts, s, kwargs, order) ==
    LET cls == strs[s].cls
        saved == consts[cls]
        lifted == Lift(consts[cls])
        res == SetParam(cls, strs[s].vals, kwargs, order)
    IN [ok |-> res.ok,
        streams |-> [strs EXCEPT ![s].vals = res.vals],
        constant |-> [consts EXCEPT ![cls] = IF res.ok THEN Restore(lifted, saved)
                                             ELSE lifted]]

\* Lines 66-71 of Stream.trigger: its locals before the loop.
TriggerLocals(ss, strs, dflt, order) ==
    [union |-> TriggerUnion(ss, strs, order),
     subscribers |-> SubscriberSet(Groups(ss, strs, dflt))]

\* A loop that catches what a subscriber raises and goes on.
AfterCallSwallow(raises, todo) == IF todo = {} THEN "returned" ELSE "deliver"

\* A loop that is left after the first subscriber's call.
AfterCallReturnsEarly(raises, todo) == IF raises THEN "raised" ELSE "returned"

\* Lines 72-73: where control is after a subscriber's call.  Nothing catches
\* what the subscriber raises, so it leaves the loop and trigger (and update).
AfterCall(raises, todo) ==
    IF raises THEN "raised"
    ELSE IF todo = {} THEN "returned" ELSE "deliver"

\* An update that triggers whatever its trigger argument says.
TriggersAlways(trigger) == TRUE

\* Whether update goes on to trigger (line 91).
Triggers(trigger) == trigger

Update(s, trigger, kwargs) ==
    /\ pc = "idle"
    /\ s \in DOMAIN streams
    /\ \E order \in Perms(DOMAIN kwargs) :
         LET u == UpdateParams(streams, constant, s, kwargs, order)
             loc == TriggerLocals(<<s>>, u.streams, defaultSubs, hashOrder)
         IN /\ call' = [op |-> "update", streams |-> <<s>>, trigger |-> trigger,
                        kwargs |-> kwargs]
            /\ streams' = u.streams
            /\ constant' = u.constant
            /\ invoked' = <<>>
            /\ IF ~u.ok
               THEN pc' = "raised" /\ UNCHANGED <<union, pending>>
               ELSE IF ~Triggers(trigger)
               THEN pc' = "returned" /\ UNCHANGED <<union, pending>>
               ELSE /\ union' = loc.union
                    /\ pending' = loc.subscribers
                    /\ pc' = AfterCall(FALSE, loc.subscribers)
    /\ UNCHANGED <<registry, defaultSubs, nextUuid, hashOrder>>

\* -------------------------------------------------------- Stream.trigger
Trigger(ss) ==
    /\ pc = "idle"
    /\ LET loc == TriggerLocals(ss, streams, defaultSubs, hashOrder)
       IN /\ call' = [op |-> "trigger", streams |-> ss]
          /\ union' = loc.union
          /\ pending' = loc.subscribers
          /\ invoked' = <<>>
          /\ pc' = AfterCall(FALSE, loc.subscribers)
    /\ UNCHANGED <<streams, registry, defaultSubs, constant, nextUuid, hashOrder>>

\* ------------------------------------------- what a caller or subscriber does
\* stream.subscribers.append(c): the list object grows in place.
AppendSubscriber(strs, dflt, s, c) ==
    IF strs[s].usesDefault
    THEN [streams |-> strs, defaultSubs |-> Append(dflt, c)]
    ELSE [streams |-> [strs EXCEPT ![s].subs = Append(@, c)], defaultSubs |-> dflt]

\* stream._hidden_subscribers.append(c)
AppendHidden(strs, s, c) == [strs EXCEPT ![s].hidden = Append(@, c)]

\* stream.f = v outside update: a constant parameter refuses it, and so does
\* the parameter's type.
SetAttr(strs, consts, s, f, v) ==
    IF consts[strs[s].cls][f] \/ ~IsNumber(v)
    THEN [ok |-> FALSE, streams |-> strs]
    ELSE [ok |-> TRUE, streams |-> [strs EXCEPT ![s].vals[f] = v]]

\* A loop that does not move on from the subscriber it called.
RemainingStuck(todo, c) == todo

\* Line 72: the loop goes on with the subscribers it has not called.
Remaining(todo, c) == todo \ {c}

\* Lines 72-73, one turn of the loop: subscriber c is called with the merged
\* mapping, and it returns or raises.
Invoke(c, raises) ==
    /\ pc = "deliver"
    /\ c \in pending
    /\ invoked' = Append(invoked, [sub |-> c, arg |-> union, raised |-> raises])
    /\ pending' = Remaining(pending, c)
    /\ pc' = AfterCall(raises, pending')
    /\ UNCHANGED <<streams, registry, defaultSubs, constant, nextUuid, hashOrder,
                   call, union>>

AddSubscriber(s, c) ==
    /\ pc = "idle"
    /\ s \in DOMAIN streams
    /\ TotalSubs(streams) + Len(defaultSubs) < MaxSubs
    /\ LET a == AppendSubscriber(streams, defaultSubs, s, c)
       IN streams' = a.streams /\ defaultSubs' = a.defaultSubs
    /\ UNCHANGED <<registry, constant, nextUuid, hashOrder, pc, call, union,
                   pending, invoked>>

AddHidden(s, c) ==
    /\ pc = "idle"
    /\ s \in DOMAIN streams
    /\ TotalSubs(streams) + Len(defaultSubs) < MaxSubs
    /\ streams' = AppendHidden(streams, s, c)
    /\ UNCHANGED <<registry, defaultSubs, constant, nextUuid, hashOrder, pc, call,
                   union, pending, invoked>>

DirectSet(s, f, v) ==
    /\ pc = "idle"
    /\ s \in DOMAIN streams
    /\ f \in DataFields(streams[s].cls)
    /\ LET a == SetAttr(streams, constant, s, f, v)
       IN /\ streams' = a.streams
          /\ pc' = IF a.ok THEN "returned" ELSE "raised"
    /\ call' = [op |-> "setattr", streams |-> <<s>>, field |-> f]
    /\ UNCHANGED <<registry, defaultSubs, constant, nextUuid, hashOrder, union,
                   pending, invoked>>

\* A lookup that takes a source that equals (==) obj for obj.
FindResultByEquality(reg, strs, obj) ==
    {reg[i].obj : i \in {j \in DOMAIN reg : strs[reg[j].obj].source.eq = obj.eq}}

\* Stream.find, line 99: the registered streams whose source is obj (`is`).
FindResult(reg, strs, obj) ==
    {reg[i].obj : i \in {j \in DOMAIN reg : strs[reg[j].obj].source = obj}}

Find(obj) ==
    /\ pc = "idle"
    /\ call' = [op |-> "find", source |-> obj,
                result |-> FindResult(registry, streams, obj)]
    /\ pc' = "returned"
    /\ UNCHANGED <<streams, registry, defaultSubs, constant, nextUuid, hashOrder,
                   union, pending, invoked>>

\* A read that uses up the stream's preprocessors and field values.
SelfAfterValueConsumed(st) ==
    [st EXCEPT !.preprocessors = <<>>,
               !.vals = [f \in DOMAIN st.vals |-> DefaultVal]]

\* Lines 130-136 build the local dict `remapped` and assign nothing to self:
\* the stream after a read of value.
SelfAfterValue(st) == st

ReadValue(s) ==
    /\ pc = "idle"
    /\ s \in DOMAIN streams
    /\ call' = [op |-> "value", streams |-> <<s>>,
                result |-> Value(streams[s], hashOrder)]
    /\ streams' = [streams EXCEPT ![s] = SelfAfterValue(@)]
    /\ pc' = "returned"
    /\ UNCHANGED <<registry, defaultSubs, constant, nextUuid, hashOrder,
                   union, pending, invoked>>

\* The call is over: its caller has the result or the exception.
Return ==
    /\ pc \in {"returned", "raised"}
    /\ pc' = "idle"
    /\ call' = NoCall
    /\ union' = EmptyDict
    /\ pending' = {}
    /\ invoked' = <<>>
    /\ UNCHANGED <<streams, registry, defaultSubs, constant, nextUuid, hashOrder>>

SubscribersArgs == {[given |-> TRUE, list |-> <<>>]}

MaxTrigger == 2

\* The lists handed to trigger: up to MaxTrigger streams, none of them twice.
TriggerArgs ==
    {ss \in UNION {[1..n -> DOMAIN streams] : n \in 0..MaxTrigger} :
        \A i, j \in DOMAIN ss : ss[i] = ss[j] => i = j}

Next ==
    \/ \E c \in CtorCalls, src \in Sources, subs \in SubscribersArgs, ps \in InitParams :
          Construct(c.cls, c.mapping, src, subs, c.preprocessors, ps)
    \/ \E s \in DOMAIN streams, trigger \in BOOLEAN, kwargs \in KwArgs :
          Update(s, trigger, kwargs)
    \/ \E ss \in TriggerArgs : Trigger(ss)
    \/ \E c \in Callables, raises \in BOOLEAN : Invoke(c, raises)
    \/ \E s \in DOMAIN streams, c \in UserCallables : AddSubscriber(s, c)
    \/ \E s \in DOMAIN streams, c \in HiddenCallables : AddHidden(s, c)
    \/ \E s \in DOMAIN streams, f \in {"x", "y"}, v \in Numbers : DirectSet(s, f, v)
    \/ \E obj \in Sources : Find(obj)
    \/ \E s \in DOMAIN streams : ReadValue(s)
    \/ Return

Spec == Init /\ [][Next]_vars

\* ------------------------------------------------------------ the claims
\* The subscribers called so far by the call in progress, in call order.
InvokedSubs == [i \in DOMAIN invoked |-> invoked[i].sub]

\* The callables on the subscribers or hidden subscribers list of stream s.
Listed(s) == Range(Subscribers(streams[s], defaultSubs)) \cup Range(streams[s].hidden)

\* The key a preprocessor pipeline leaves key k under.
RECURSIVE RenamedBy(_, _)
RenamedBy(preps, k) ==
    IF preps = <<>> THEN k
    ELSE RenamedBy(Tail(preps),
                   IF Head(preps).cls = "Rename" THEN GetOrSelf(Head(preps).mapping, k)
                   ELSE k)

\* The remapped name of field f of a stream.
RemappedName(st, f) == RenamedBy(st.preprocessors, GetOrSelf(st.mapping, f))

\* An update with trigger=True is in progress or just over, and line 87 of it
\* did not raise.
InTriggeringUpdate ==
    /\ call.op = "update"
    /\ call.trigger
    /\ pc # "raised" \/ invoked # <<>>

\* A completed update with trigger=True called every listed callable once.
UpdateCallsEachOnce ==
    InTriggeringUpdate =>
        /\ \A c \in Callables : Count(InvokedSubs, c) <= 1
        /\ Range(InvokedSubs) \subseteq Listed(call.streams[1])
        /\ pc = "returned" =>
              \A c \in Listed(call.streams[1]) : Count(InvokedSubs, c) = 1

\* C1 as stated: an update with the default trigger=True that returns has
\* called every callable of the stream's subscribers and hidden subscribers
\* exactly once, and every mapping passed holds each updated field's new value
\* under the field's remapped name.
C1_AsStated ==
    /\ UpdateCallsEachOnce
    /\ InTriggeringUpdate =>
          LET st == streams[call.streams[1]]
          IN \A i \in DOMAIN invoked : \A k \in DOMAIN call.kwargs :
                /\ RemappedName(st, k) \in DOMAIN invoked[i].arg
                /\ invoked[i].arg[RemappedName(st, k)] = call.kwargs[k]

\* Field k of the stream is the only field delivered under its remapped name.
AloneUnderName(st, k) ==
    \A f \in DataFields(st.cls) : RemappedName(st, f) = RemappedName(st, k) => f = k

\* C1, amended: an update with the default trigger=True that returns has
\* called every callable of the stream's subscribers and hidden subscribers
\* exactly once, and every mapping passed holds, under the remapped name of each
\* updated field, the field's new value, provided no other field of the stream
\* is remapped to the same name.
C1_UpdateTriggersOnce ==
    /\ UpdateCallsEachOnce
    /\ InTriggeringUpdate =>
          LET st == streams[call.streams[1]]
          IN \A i \in DOMAIN invoked : \A k \in DOMAIN call.kwargs :
                /\ RemappedName(st, k) \in DOMAIN invoked[i].arg
                /\ AloneUnderName(st, k) =>
                      invoked[i].arg[RemappedName(st, k)] = call.kwargs[k]

\* C1's case: update(x=...) on a stream whose x is remapped and whose
\* subscribers list names one callable twice has returned after calling it.
C1_Witness ==
    /\ pc = "returned"
    /\ call.op = "update"
    /\ call.trigger
    /\ "x" \in DOMAIN call.kwargs
    /\ RemappedName(streams[call.streams[1]], "x") = "posx"
    /\ Len(streams[call.streams[1]].subs) = 2
    /\ Len(invoked) = 1

C3_SilentUpdate ==
    /\ (call.op = "update" /\ ~call.trigger) =>
          /\ invoked = <<>>
          /\ pending = {}
          /\ pc \in {"returned", "raised"}
          /\ pc = "returned" =>
                \A k \in DOMAIN call.kwargs :
                    /\ k \in DOMAIN streams[call.streams[1]].vals
                    /\ streams[call.streams[1]].vals[k] = call.kwargs[k]
    /\ invoked # <<>> =>
          \/ call.op = "trigger"
          \/ call.op = "update" /\ call.trigger
    /\ call.op = "trigger" =>
          \A i \in DOMAIN invoked :
              \A j \in DOMAIN call.streams :
                  LET st == streams[call.streams[j]]
                  IN \A f \in DataFields(st.cls) :
                        (\A j2 \in DOMAIN call.streams :
                            \A f2 \in DataFields(streams[call.streams[j2]].cls) :
                                RemappedName(streams[call.streams[j2]], f2)
                                    = RemappedName(st, f) => (j2 = j /\ f2 = f))
                        => invoked[i].arg[RemappedName(st, f)] = st.vals[f]

\* C3's case: update(trigger=False) has set a value of a stream that has a
\* subscriber, and returned.
C3_Witness ==
    /\ pc = "returned"
    /\ call.op = "update"
    /\ ~call.trigger
    /\ call.kwargs # EmptyDict
    /\ Listed(call.streams[1]) # {}

\* The callables on a list of some stream of the list ss.
ListedByAny(ss) == UNION {Listed(ss[j]) : j \in DOMAIN ss}

\* The keys the values of the streams of ss have.
KeysOf(ss) == UNION {DOMAIN Value(streams[ss[j]], hashOrder) : j \in DOMAIN ss}

\* C4: Stream.trigger on a list of streams calls no callable twice and none
\* that no stream of the list names; when it returns it has called each
\* callable of the union of their subscribers and hidden subscribers once; and
\* every call got one and the same mapping, which has the keys of all the
\* streams' values, each with the value some stream of the list has for it.
C4_TriggerUnionOnce ==
    call.op = "trigger" =>
        /\ \A c \in Callables : Count(InvokedSubs, c) <= 1
        /\ Range(InvokedSubs) \subseteq ListedByAny(call.streams)
        /\ pc = "returned" =>
              \A c \in ListedByAny(call.streams) : Count(InvokedSubs, c) = 1
        /\ \A i \in DOMAIN invoked :
              /\ invoked[i].arg = invoked[1].arg
              /\ DOMAIN invoked[i].arg = KeysOf(call.streams)
              /\ \A k \in DOMAIN invoked[i].arg :
                    \E j \in DOMAIN call.streams :
                        LET v == Value(streams[call.streams[j]], hashOrder)
                        IN k \in DOMAIN v /\ invoked[i].arg[k] = v[k]

\* C4's case: trigger on two streams that both name f has returned after one
\* call of f, and the mapping has both x and y.
C4_Witness ==
    /\ pc = "returned"
    /\ call.op = "trigger"
    /\ Len(call.streams) = 2
    /\ "f" \in Listed(call.streams[1]) \cap Listed(call.streams[2])
    /\ Len(invoked) = 1
    /\ {"x", "y"} \subseteq DOMAIN invoked[1].arg

\* The place in ss of the last stream whose value has key k.
LastWith(ss, k) ==
    CHOOSE j \in DOMAIN ss :
        /\ k \in DOMAIN Value(streams[ss[j]], hashOrder)
        /\ \A j2 \in DOMAIN ss :
              k \in DOMAIN Value(streams[ss[j2]], hashOrder) => j2 <= j

\* C5: the mapping trigger merges, and passes to each subscriber, has for
\* every key the value of the last stream of the list whose value has that key.
C5_LastStreamWins ==
    call.op = "trigger" =>
        /\ DOMAIN union = KeysOf(call.streams)
        /\ \A k \in DOMAIN union :
              union[k] = Value(streams[call.streams[LastWith(call.streams, k)]],
                               hashOrder)[k]
        /\ \A i \in DOMAIN invoked : invoked[i].arg = union

\* C5's case: two streams whose values differ on a shared key were triggered
\* together and a subscriber was called.
C5_Witness ==
    /\ call.op = "trigger"
    /\ Len(call.streams) = 2
    /\ invoked # <<>>
    /\ \E k \in DOMAIN Value(streams[call.streams[1]], hashOrder)
                  \cap DOMAIN Value(streams[call.streams[2]], hashOrder) :
          Value(streams[call.streams[1]], hashOrder)[k]
              # Value(streams[call.streams[2]], hashOrder)[k]

\* A step in which update's lines 83-89 run.
UpdateStep == pc = "idle" /\ call'.op = "update"

\* What C6 asks of a step: when update's set_param does not raise, every
\* constant flag is after lines 83-89 what it was before; the flags stay so
\* until update has returned; and an assignment to a parameter from outside
\* update, while its flag is set, is refused and leaves the value as it was.
C6_Step ==
    /\ (UpdateStep /\ pc' # "raised") => constant' = constant
    /\ (pc # "idle" /\ call.op = "update") => constant' = constant
    /\ (pc = "idle" /\ call'.op = "setattr") =>
          LET s == call'.streams[1]
          IN constant[streams[s].cls][call'.field] =>
                pc' = "raised" /\ streams' = streams

\* C6: after an update that succeeds every constant flag is what it was before
\* the call, and an assignment to a constant parameter outside update fails,
\* before and after any such updates.
C6_ConstantRestored == [][C6_Step]_vars

\* C6's case: an assignment to a constant parameter of a stream that was
\* updated before (its x is no longer the default) has been refused.
C6_Witness ==
    /\ pc = "raised"
    /\ call.op = "setattr"
    /\ call.field = "x"
    /\ constant[streams[call.streams[1]].cls]["x"]
    /\ streams[call.streams[1]].vals["x"] # DefaultVal

\* What C7 asks of a step: when set_param raises inside update, every constant
\* flag is after update what it was before.
C7_Step == (UpdateStep /\ pc' = "raised") => constant' = constant

\* C7: an update that fails while applying the values still leaves every
\* constant flag as it was before the call.
C7_RestoredOnError == [][C7_Step]_vars

\* What C8 asks of a step: an update with a keyword that names no declared
\* field raises, changes nothing of any stream and calls no subscriber.
C8_Step ==
    (UpdateStep /\ \E k \in DOMAIN call'.kwargs :
                      k \notin Params(streams[call'.streams[1]].cls)) =>
        /\ pc' = "raised"
        /\ streams' = streams
        /\ invoked' = <<>>
        /\ pending' = {}

\* C8: an update with a key that names no declared field fails, creates no
\* state, leaves every field value unchanged (those of valid keys of the same
\* call too) and calls no subscriber.
C8_UnknownFieldRejected == [][C8_Step]_vars

\* A subscriber has raised in the call in progress.
SubscriberRaised == \E i \in DOMAIN invoked : invoked[i].raised

\* What holds of a state once a subscriber has raised: the call is over with the
\* exception, the subscriber that raised is the last one called, no subscriber
\* was called twice, the ones the loop had not reached were not called, and the
\* values an update set are set.
C9_State ==
    SubscriberRaised =>
        /\ pc = "raised"
        /\ \A i \in DOMAIN invoked : invoked[i].raised => i = Len(invoked)
        /\ \A c \in Callables : Count(InvokedSubs, c) <= 1
        /\ pending \cap Range(InvokedSubs) = {}
        /\ call.op = "update" =>
              \A k \in DOMAIN call.kwargs :
                  /\ k \in DOMAIN streams[call.streams[1]].vals
                  /\ streams[call.streams[1]].vals[k] = call.kwargs[k]

\* What C9 asks of a step: its end is as C9_State says, and once a subscriber
\* has raised the only step left is the caller's getting the exception: no
\* further subscriber is called and no stream changes.
C9_Step ==
    /\ C9_State'
    /\ SubscriberRaised =>
          /\ pc' = "idle"
          /\ invoked' = <<>>
          /\ streams' = streams

\* C9: a subscriber's exception ends trigger (and the update that triggered)
\* with that exception; the subscribers not yet called are not called, those
\* called are not called again, and the values update set stay set.
C9_RaiseAborts == [][C9_Step]_vars

\* C9's case: in an update, the first of two subscribers raised: the other one
\* is still to be called, and is not.
C9_Witness ==
    /\ pc = "raised"
    /\ call.op = "update"
    /\ call.kwargs # EmptyDict
    /\ Len(invoked) = 1
    /\ pending # {}

\* The registry holds every stream, in construction order, under its own
\* token, and no token twice.
RegistryHoldsAll ==
    /\ Len(registry) = Len(streams)
    /\ \A i \in DOMAIN streams : registry[i] = [uuid |-> streams[i].uuid, obj |-> i]
    /\ \A i, j \in DOMAIN streams : streams[i].uuid = streams[j].uuid => i = j

\* What C10 asks of a step: after it the registry holds every constructed
\* stream under its own token, and the entries there were are in place, any
\* new one after them.
C10_Step ==
    /\ RegistryHoldsAll'
    /\ Len(registry) <= Len(registry')
    /\ \A i \in DOMAIN registry : registry'[i] = registry[i]

\* C10: in every reachable state the registry holds every constructed stream
\* under its own token, the tokens are distinct, and no operation removes or
\* replaces an entry: the registry only grows, in construction order.
C10_RegistryGrows == [][C10_Step]_vars

\* C10's case: with two streams registered, a trigger on both has run.
C10_Witness ==
    /\ Len(registry) = 2
    /\ registry[1].uuid # registry[2].uuid
    /\ call.op = "trigger"
    /\ Len(call.streams) = 2
    /\ pc = "returned"
    /\ invoked # <<>>

\* ------------------------------------------------- lookup by source (find)
\* The objects a stream can have as its source: None, and three objects of
\* which a and a2 are equal (==) and yet two objects.
NoSource == [id |-> "None", eq |-> "None"]

FindSources ==
    {NoSource, [id |-> "a", eq |-> "a"], [id |-> "a2", eq |-> "a"],
     [id |-> "b", eq |-> "b"]}

\* Construction, find and the caller's going on: what the registry lookup
\* depends on.
NextFind ==
    \/ \E c \in CtorCalls, src \in FindSources, subs \in SubscribersArgs, ps \in InitParams :
          Construct(c.cls, c.mapping, src, subs, c.preprocessors, ps)
    \/ \E obj \in FindSources : Find(obj)
    \/ Return

SpecFind == Init /\ [][NextFind]_vars

\* What C11 asks of a step that is a call of find: its result is the set of
\* the constructed streams whose source is the object asked for, and the
\* registry, the streams and every other part of the program's state are as
\* they were.
C11_Step ==
    (pc = "idle" /\ call'.op = "find") =>
        /\ call'.result = {i \in DOMAIN streams : streams[i].source.id = call'.source.id}
        /\ pc' = "returned"
        /\ UNCHANGED <<streams, registry, defaultSubs, constant, nextUuid>>

\* C11: Stream.find(obj) returns exactly the registered streams whose source is
\* obj by identity (every stream constructed with source=obj, none with another
\* source or with none), and changes neither the registry nor any stream.
C11_FindBySource == [][C11_Step]_vars

\* C11's case: of two streams whose sources are equal but are two objects,
\* find has returned just the one whose source is the object asked for.
C11_Witness ==
    /\ call.op = "find"
    /\ Len(streams) = 2
    /\ Cardinality(call.result) = 1
    /\ call.source # NoSource
    /\ streams[1].source.eq = streams[2].source.eq
    /\ streams[1].source # streams[2].source

\* ------------------------------------------- value, mappings, preprocessors
\* The base Preprocessor, which has no alias table.
Preprocessor == [cls |-> "Preprocessor", mapping |-> EmptyDict]

\* Two iteration orders a build's dicts may have.
ValueKeyOrders ==
    {<<"posx", "posy", "x", "y", "z">>, <<"z", "y", "x", "posy", "posx">>}

\* The constructor calls made where value is looked at: with and without a
\* mapping, and with preprocessors that rename, chain and collide.
CtorCallsValue ==
    {[cls |-> "PositionX", mapping |-> NoMapping, preprocessors |-> <<>>],
     [cls |-> "PositionX", mapping |-> ScalarMapping("posx"), preprocessors |-> <<>>],
     [cls |-> "PositionX", mapping |-> ScalarMapping("posx"),
      preprocessors |-> <<Rename([posx |-> "z"])>>],
     [cls |-> "PositionXY", mapping |-> NoMapping, preprocessors |-> <<Preprocessor>>],
     [cls |-> "PositionXY", mapping |-> DictMapping([x |-> "y"]), preprocessors |-> <<>>],
     [cls |-> "PositionXY", mapping |-> NoMapping,
      preprocessors |-> <<Rename([x |-> "y"])>>],
     [cls |-> "PositionXY", mapping |-> NoMapping,
      preprocessors |-> <<Rename([x |-> "z"]), Rename([z |-> "posx"])>>],
     [cls |-> "PositionXY", mapping |-> ScalarMapping("posx"), preprocessors |-> <<>>]}

InitValue ==
    /\ streams = <<>>
    /\ registry = <<>>
    /\ defaultSubs = <<>>
    /\ constant = DeclaredConstant
    /\ nextUuid = 1
    /\ hashOrder \in ValueKeyOrders
    /\ pc = "idle"
    /\ call = NoCall
    /\ union = EmptyDict
    /\ pending = {}
    /\ invoked = <<>>

\* Construction, update, assignment from outside and reads of value, on
\* streams that have no subscribers.
NextValue ==
    \/ \E c \in CtorCallsValue, src \in Sources, subs \in SubscribersArgs, ps \in InitParams :
          Construct(c.cls, c.mapping, src, subs, c.preprocessors, ps)
    \/ \E s \in DOMAIN streams, trigger \in BOOLEAN, kwargs \in KwArgs :
          Update(s, trigger, kwargs)
    \/ \E s \in DOMAIN streams, f \in {"x", "y"}, v \in Numbers : DirectSet(s, f, v)
    \/ \E s \in DOMAIN streams : ReadValue(s)
    \/ Return

SpecValue == InitValue /\ [][NextValue]_vars

\* A step in which a caller assigns to a field from outside update.
AssignStep == pc = "idle" /\ call'.op = "setattr"

\* A step in which value is read.
ReadStep == pc = "idle" /\ call'.op = "value"

\* What C12 asks of a step: a read of value returns the mapping the stream's
\* state gives and changes no field value, mapping, preprocessor or subscriber
\* list, no constant flag and no registry entry; and a step that is neither an
\* update nor an assignment to a field leaves what a read of any stream
\* returns as it was, so that two reads with only such steps between them
\* return equal mappings.
C12_Step ==
    /\ ReadStep =>
          /\ call'.result = Value(streams[call'.streams[1]], hashOrder)
          /\ UNCHANGED <<streams, constant, registry, defaultSubs, hashOrder>>
    /\ ~(UpdateStep \/ AssignStep) =>
          \A s \in DOMAIN streams :
              Value(streams'[s], hashOrder') = Value(streams[s], hashOrder)

\* C12: reading value is pure: two reads of a stream's value with no update in
\* between return equal mappings, and a read changes no field value, constant
\* flag, mapping, subscriber list or registry entry.
C12_ValuePure == [][C12_Step]_vars

\* C12's case: the value of an updated stream with a preprocessor has been
\* read.
C12_Witness ==
    /\ pc = "returned"
    /\ call.op = "value"
    /\ streams[call.streams[1]].preprocessors # <<>>
    /\ \E k \in DOMAIN call.result : call.result[k] # DefaultVal

\* A step in which a constructor is called with a scalar mapping, on a class
\* with one data field, and returns.
ScalarCtorStep ==
    /\ pc = "idle"
    /\ call'.op = "init"
    /\ call'.mapping.kind = "scalar"
    /\ Cardinality(DataFields(call'.cls)) = 1
    /\ pc' = "returned"

\* Stream st has one data field, and its mapping names that field alone.
HasScalarMapping(st) ==
    /\ Cardinality(DataFields(st.cls)) = 1
    /\ DOMAIN st.mapping = DataFields(st.cls)

\* The one-entry mapping from the external name of st's one field to the
\* field's value.
ScalarValue(st) ==
    LET f == CHOOSE f \in DataFields(st.cls) : TRUE
    IN [k \in {st.mapping[f]} |-> st.vals[f]]

\* What makes a stream, once constructed with a scalar mapping, stay one whose
\* mapping names its one field by that scalar: the constructor keeps {f: m},
\* and no step changes a stream's class, mapping or preprocessors.
ScalarMappingKept ==
    /\ ScalarCtorStep =>
          streams'[Len(streams')].mapping =
              [f \in DataFields(call'.cls) |-> call'.mapping.s]
    /\ \A s \in DOMAIN streams :
          /\ streams'[s].cls = streams[s].cls
          /\ streams'[s].mapping = streams[s].mapping
          /\ streams'[s].preprocessors = streams[s].preprocessors

\* What C13 as stated asks of a step: after it, the value of every stream
\* constructed with a scalar mapping m on a class with one data field is {m: the
\* field's value}.
C13_StepAsStated ==
    /\ ScalarMappingKept
    /\ \A s \in DOMAIN streams' :
          HasScalarMapping(streams'[s]) =>
              Value(streams'[s], hashOrder') = ScalarValue(streams'[s])

\* C13 as stated: a stream with one data field constructed with a scalar
\* mapping m has the value {m: the field's value}, before and after any
\* updates, whatever its preprocessors.
C13_AsStated == [][C13_StepAsStated]_vars

\* What the amended C13 asks of a step: the same, of the streams none of whose
\* preprocessors renames m.
C13_Step ==
    /\ ScalarMappingKept
    /\ \A s \in DOMAIN streams' :
          LET st == streams'[s]
          IN (HasScalarMapping(st)
                /\ \A k \in Range(st.mapping) : RenamedBy(st.preprocessors, k) = k) =>
                 Value(st, hashOrder') = ScalarValue(st)

\* C13, amended: a stream with one data field constructed with a scalar mapping
\* m, none of whose preprocessors renames m, has the value {m: the field's
\* value}, before and after any sequence of updates.
C13_ScalarMapping == [][C13_Step]_vars

\* C13's case: a stream constructed with the scalar mapping posx and no
\* preprocessor has been updated, and its value read.
C13_Witness ==
    /\ pc = "returned"
    /\ call.op = "value"
    /\ HasScalarMapping(streams[call.streams[1]])
    /\ streams[call.streams[1]].preprocessors = <<>>
    /\ call.result = [posx |-> MaxVal]

\* ------------------------------------------------ the constructor's mapping
\* The constructor calls made where the mapping argument is looked at: none, a
\* scalar and a dict, on classes with no, one and two data fields; the dicts
\* name declared fields, the implicit name field, and a field not declared.
CtorCallsInit ==
    {[cls |-> "Stream", mapping |-> NoMapping, preprocessors |-> <<>>],
     [cls |-> "Stream", mapping |-> ScalarMapping("posx"), preprocessors |-> <<>>],
     [cls |-> "PositionX", mapping |-> NoMapping, preprocessors |-> <<>>],
     [cls |-> "PositionX", mapping |-> ScalarMapping("posx"), preprocessors |-> <<>>],
     [cls |-> "PositionX", mapping |-> DictMapping([x |-> "posx"]), preprocessors |-> <<>>],
     [cls |-> "PositionX", mapping |-> DictMapping([z |-> "posx"]), preprocessors |-> <<>>],
     [cls |-> "PositionX", mapping |-> DictMapping([name |-> "posx"]), preprocessors |-> <<>>],
     [cls |-> "PositionXY", mapping |-> ScalarMapping("posx"), preprocessors |-> <<>>],
     [cls |-> "PositionXY", mapping |-> DictMapping([x |-> "posx", y |-> "posy"]),
      preprocessors |-> <<>>]}

\* Constructor parameters, one of which the parameter's type rejects.
InitParamsInit == InitParams \cup {[x |-> NotNumber]}

\* Construction, reads of value and the caller's going on.
NextInit ==
    \/ \E c \in CtorCallsInit, src \in Sources, subs \in SubscribersArgs, ps \in InitParamsInit :
          Construct(c.cls, c.mapping, src, subs, c.preprocessors, ps)
    \/ \E s \in DOMAIN streams : ReadValue(s)
    \/ Return

SpecInit == Init /\ [][NextInit]_vars

\* A step in which a constructor is called.
CtorStep == pc = "idle" /\ call'.op = "init"

\* What C14 asks of a step: a constructor called with a scalar mapping on a
\* class whose parameters are not exactly two raises, and leaves the registry
\* and the streams as they were.
C14_Step ==
    (CtorStep /\ call'.mapping.kind = "scalar"
        /\ Cardinality(Params(call'.cls)) # 2) =>
        /\ pc' = "raised"
        /\ registry' = registry
        /\ streams' = streams

\* C14: constructing a stream with a scalar mapping on a variant that does not
\* declare exactly two fields (name plus one data field) fails with an error,
\* and the failed construction adds no entry to the registry.
C14_AmbiguousScalarRejected == [][C14_Step]_vars

\* C14's case: with a stream registered, a constructor called with a scalar
\* mapping on the class with two data fields has raised.
C14_Witness ==
    /\ pc = "raised"
    /\ call.op = "init"
    /\ call.mapping.kind = "scalar"
    /\ call.cls = "PositionXY"
    /\ Len(registry) = 1

\* C15: the keys of the mapping of every constructed stream are declared
\* fields of the stream's class other than the implicit name field; no stream
\* holds a mapping that names an undeclared field.
C15_MappingKeysDeclared ==
    \A s \in DOMAIN streams : DOMAIN streams[s].mapping \subseteq DataFields(streams[s].cls)

\* ------------------------------------------------------------- Rename alone
\* How often the one Rename is applied to the one input.
MaxApply == 2

\* The alias tables Rename is constructed with.
AliasTables ==
    {EmptyDict, [x |-> "posx"], [x |-> "y"], [x |-> "posx", y |-> "posy"],
     [x |-> "y", y |-> "x"]}

\* The mappings Rename is applied to, the empty one among them.
RenameInputs == UNION {[K -> Numbers] : K \in SUBSET {"x", "y", "z"}}

\* A Rename and a mapping have been made; nothing has been applied yet.
InitRename ==
    /\ streams = <<>>
    /\ registry = <<>>
    /\ defaultSubs = <<>>
    /\ constant = DeclaredConstant
    /\ nextUuid = 1
    /\ hashOrder \in ValueKeyOrders
    /\ pc = "idle"
    /\ \E table \in AliasTables, params \in RenameInputs :
          call = [op |-> "rename", self |-> Rename(table), params |-> params,
                  results |-> <<>>]
    /\ union = EmptyDict
    /\ pending = {}
    /\ invoked = <<>>

\* rename(params): line 39 returns a new dict, and assigns nothing to self,
\* to self.mapping or to params.
CallRename ==
    /\ call.op = "rename"
    /\ Len(call.results) < MaxApply
    /\ call' = [op |-> "rename", self |-> call.self, params |-> call.params,
                results |-> Append(call.results,
                                   RenameCall(call.self, call.params, hashOrder))]
    /\ UNCHANGED <<streams, registry, defaultSubs, constant, nextUuid, hashOrder,
                   pc, union, pending, invoked>>

NextRename == CallRename

SpecRename == InitRename /\ [][NextRename]_vars

\* The name Rename p gives key k.
Alias(p, k) == GetOrSelf(p.mapping, k)

\* What C16 as stated asks of a result: its keys are the aliases of the input's
\* keys (the key itself where the table has none), and each input key's value
\* is under the key's alias.
RenamedAsStated(p, params, result) ==
    /\ DOMAIN result = {Alias(p, k) : k \in DOMAIN params}
    /\ \A k \in DOMAIN params : result[Alias(p, k)] = params[k]

\* C16 as stated: every application of a Rename returns the input with each
\* key in the alias table replaced by its alias, every other key kept, each
\* with its original value; the Rename and the input are left as they were,
\* and all applications to the same input return the same.
C16_AsStated ==
    call.op = "rename" =>
        \A i \in DOMAIN call.results :
            /\ RenamedAsStated(call.self, call.params, call.results[i])
            /\ call.results[i] = call.results[1]

\* What the amended C16 asks of a result: the same, where the value of an
\* input key is under the key's alias if no other input key has that alias,
\* and the value of one of the input keys otherwise.
Renamed(p, params, result) ==
    /\ DOMAIN result = {Alias(p, k) : k \in DOMAIN params}
    /\ \A k \in DOMAIN params :
          \E j \in DOMAIN params :
              /\ Alias(p, j) = Alias(p, k)
              /\ result[Alias(p, k)] = params[j]

\* What the amended C16 asks of a step: every result so far is as Renamed says
\* and the results are equal; the alias table and the input are as they were.
C16_Step ==
    (call.op = "rename") =>
        /\ call'.self = call.self
        /\ call'.params = call.params
        /\ \A i \in DOMAIN call'.results :
              /\ Renamed(call.self, call.params, call'.results[i])
              /\ call'.results[i] = call'.results[1]

\* C16, amended: Rename applied to any mapping (the empty one too) returns a
\* new mapping whose keys are the input's keys, each replaced by its alias if
\* the alias table has one and kept otherwise; a key of the result that one
\* input key alone ends under has that key's original value, and one that
\* several input keys end under has the value of one of them.  The input and
\* the alias table are left unchanged, and repeated application to the same
\* input gives the same result.
C16_RenamePure == [][C16_Step]_vars

\* C16's case: Rename(x='posx') has been applied twice to a mapping with x
\* and y, and has returned the mapping with posx and y.
C16_Witness ==
    /\ call.op = "rename"
    /\ call.self.mapping = [x |-> "posx"]
    /\ call.params = [x |-> MaxVal, y |-> DefaultVal]
    /\ call.results = <<[posx |-> MaxVal, y |-> DefaultVal],
                        [posx |-> MaxVal, y |-> DefaultVal]>>

\* ----------------------------------------------- what value is said to be
\* The place of key k in the sequence ord.
PlaceIn(ord, k) == CHOOSE i \in DOMAIN ord : ord[i] = k

\* Mapping d with each key replaced by its entry in table when it has one and
\* kept otherwise; where several keys end under one name, the one that comes
\* last in ord gives the value.
Replaced(table, d, ord) ==
    [n \in {GetOrSelf(table, k) : k \in DOMAIN d} |->
        d[CHOOSE k \in DOMAIN d :
            /\ GetOrSelf(table, k) = n
            /\ \A j \in DOMAIN d :
                  GetOrSelf(table, j) = n => PlaceIn(ord, j) <= PlaceIn(ord, k)]]

\* Every declared field of st except name, with its current value.
FieldValues(st) == [f \in DataFields(st.cls) |-> st.vals[f]]

\* What the first i preprocessors of st have made of its remapped fields, each
\* receiving the output of the one before it.
RECURSIVE AfterPreprocessors(_, _, _)
AfterPreprocessors(st, i, order) ==
    IF i = 0 THEN Replaced(st.mapping, FieldValues(st), SortedFields(st.cls))
    ELSE LET before == AfterPreprocessors(st, i - 1, order)
         IN IF st.preprocessors[i].cls = "Rename"
            THEN Replaced(st.preprocessors[i].mapping, before, order)
            ELSE before

\* C17: the value read from a stream is its declared fields other than name
\* with their current values, each key replaced by its mapping entry when it
\* has one, then passed through the stream's preprocessors in list order, each
\* getting the output of the one before; with no mapping and no preprocessors
\* it has exactly one entry per declared data field.
C17_ValuePipeline ==
    call.op = "value" =>
        LET st == streams[call.streams[1]]
        IN /\ call.result = AfterPreprocessors(st, Len(st.preprocessors), hashOrder)
           /\ (st.mapping = EmptyDict /\ st.preprocessors = <<>>) =>
                 call.result = FieldValues(st)

\* C17's case: the value of a stream with two preprocessors, the second of
\* which renames what the first one made, has been read.
C17_Witness ==
    /\ call.op = "value"
    /\ Len(streams[call.streams[1]].preprocessors) = 2
    /\ call.result = [posx |-> MaxVal, y |-> DefaultVal]

\* ------------------------------------- streams made without a subscribers list
\* The constructor is called without a subscribers argument: the stream gets
\* the default of line 102, a list made once, when the function is defined.
DefaultSubscribers == {[given |-> FALSE, list |-> <<>>]}

\* The callable that is given to the stream constructed i-th, and to no other.
SubscriberOf == <<"f1", "f2", "f3">>

KwArgsShared == {EmptyDict, [x |-> MaxVal]}

\* Streams constructed without a subscribers argument, each given its own
\* subscriber, updated and triggered.
NextShared ==
    \/ \E c \in CtorCalls, src \in Sources, subs \in DefaultSubscribers, ps \in InitParams :
          Construct(c.cls, c.mapping, src, subs, c.preprocessors, ps)
    \/ \E s \in DOMAIN streams : AddSubscriber(s, SubscriberOf[s])
    \/ \E s \in DOMAIN streams, trigger \in BOOLEAN, kwargs \in KwArgsShared :
          Update(s, trigger, kwargs)
    \/ \E ss \in TriggerArgs : Trigger(ss)
    \/ \E c \in Range(SubscriberOf) : Invoke(c, FALSE)
    \/ Return

SpecShared == Init /\ [][NextShared]_vars

\* C18: subscribers of distinct streams are independent: a subscriber added to
\* the subscribers list of one stream constructed without a subscribers
\* argument is not invoked when another such stream, never given that
\* subscriber, is updated or triggered: whatever is invoked was given to one of
\* the streams the call is on.
C18_SubscribersIndependent ==
    \A i \in DOMAIN invoked :
        \E s \in Range(call.streams) : invoked[i].sub = SubscriberOf[s]

\* ------------------------------------- subscribers that act on the streams
\* The callables subscribed before a pass, and the one a subscriber adds
\* during it.
PassCallables == {"f", "g"}
LateCallable == "h"
ActingCallables == PassCallables \cup {LateCallable}

\* A loop that passes each subscriber the values the streams have by then.
PassedMappingFresh(u, ss, strs, order) == TriggerUnion(ss, strs, order)

\* Line 73, subscriber(union): what is passed is the dict line 68 built before
\* the loop, whatever the streams hold by now.
PassedMapping(u, ss, strs, order) == u

\* One turn of the loop of lines 72-73 in which the subscriber does something
\* to the streams: the record of the call, and where the loop is after it.
AfterActing(c, raises, did) ==
    /\ pc = "deliver"
    /\ c \in pending
    /\ invoked' = Append(invoked,
                         [sub |-> c, raised |-> raises, did |-> did,
                          arg |-> PassedMapping(union, call.streams, streams, hashOrder)])
    /\ pending' = Remaining(pending, c)
    /\ pc' = AfterCall(raises, pending')
    /\ UNCHANGED <<registry, nextUuid, hashOrder, call, union>>

\* Subscriber c, when called, calls s.update(trigger=False, **kwargs); what
\* update raises, c lets through.
InvokeUpdating(c, s, kwargs) ==
    /\ s \in DOMAIN streams
    /\ \E order \in Perms(DOMAIN kwargs) :
          LET u == UpdateParams(streams, constant, s, kwargs, order)
          IN /\ streams' = u.streams
             /\ constant' = u.constant
             /\ AfterActing(c, ~u.ok, [op |-> "update"])
    /\ UNCHANGED defaultSubs

\* Subscriber c, when called, appends a callable to s.subscribers.
InvokeAdding(c, s, added) ==
    /\ s \in DOMAIN streams
    /\ TotalSubs(streams) + Len(defaultSubs) <= MaxSubs
    /\ LET a == AppendSubscriber(streams, defaultSubs, s, added)
       IN streams' = a.streams /\ defaultSubs' = a.defaultSubs
    /\ AfterActing(c, FALSE, [op |-> "add"])
    /\ UNCHANGED constant

\* Subscriber c, when called, assigns s.f = v; what the assignment raises, c
\* lets through.
InvokeAssigning(c, s, f, v) ==
    /\ s \in DOMAIN streams
    /\ f \in DataFields(streams[s].cls)
    /\ LET a == SetAttr(streams, constant, s, f, v)
       IN /\ streams' = a.streams
          /\ AfterActing(c, ~a.ok, [op |-> "setattr", stream |-> s, field |-> f])
    /\ UNCHANGED <<defaultSubs, constant>>

\* The constructor calls made where subscribers act: no mapping, one and two
\* data fields.
CtorCallsActing ==
    {[cls |-> "PositionX", mapping |-> NoMapping, preprocessors |-> <<>>],
     [cls |-> "PositionXY", mapping |-> NoMapping, preprocessors |-> <<>>]}

\* The keywords of a caller's update, one of them rejected by the type, and
\* those of a subscriber's update.
\* The streams trigger was called on, while its loop runs.
PassStreams == IF pc = "deliver" THEN Range(call.streams) ELSE {}

KwArgsCaller == {[x |-> MaxVal], [x |-> NotNumber]}
KwArgsActing == {[x |-> MaxVal]}

\* Streams with subscribers that, when called, update one of the streams of the
\* pass silently, add a subscriber to it or assign to a field of it.
NextActing ==
    \/ \E c \in CtorCallsActing, src \in Sources, subs \in SubscribersArgs :
          Construct(c.cls, c.mapping, src, subs, c.preprocessors, EmptyDict)
    \/ \E s \in DOMAIN streams, c \in PassCallables : AddSubscriber(s, c)
    \/ \E s \in DOMAIN streams, trigger \in BOOLEAN, kwargs \in KwArgsCaller :
          Update(s, trigger, kwargs)
    \/ \E ss \in TriggerArgs : Trigger(ss)
    \/ \E c \in ActingCallables, s \in PassStreams, kwargs \in KwArgsActing :
          InvokeUpdating(c, s, kwargs)
    \/ \E c \in ActingCallables, s \in PassStreams :
          InvokeAdding(c, s, LateCallable)
    \/ \E c \in ActingCallables, s \in PassStreams :
          InvokeAssigning(c, s, "x", DefaultVal)
    \/ Return

SpecActing == Init /\ [][NextActing]_vars

\* What C19 asks of a step.  The step that starts a pass computes the merged
\* mapping and the set of subscribers from the streams as they then are; a
\* step of the pass leaves the merged mapping as it is, passes it to each
\* subscriber it calls, and leaves the set of subscribers of the pass (those
\* called and those still to be called) as it is, whatever the subscriber
\* called does to the streams and their lists.
C19_Step ==
    /\ (pc = "idle" /\ pc' = "deliver") =>
          /\ union' = TriggerUnion(call'.streams, streams', hashOrder)
          /\ pending' = SubscriberSet(Groups(call'.streams, streams', defaultSubs'))
    /\ pc = "deliver" =>
          /\ union' = union
          /\ Range(InvokedSubs') \cup pending' = Range(InvokedSubs) \cup pending
          /\ \A i \in DOMAIN invoked' : invoked'[i].arg = union

\* C19: within one pass of Stream.trigger the merged mapping and the set of
\* subscribers are fixed before the first subscriber is called: when a
\* subscriber calls update(trigger=False) on one of the streams, or adds a
\* subscriber, the subscribers called after it still get the values computed at
\* the start of the pass, and the added subscriber is not called in that pass.
C19_PassFixedAtStart == [][C19_Step]_vars

\* C19's case: in a pass that has returned, the first subscriber updated a
\* stream and the second added a subscriber; the second got the values of the
\* start, which the streams no longer have, and the added one was not called.
C19_Witness ==
    /\ pc = "returned"
    /\ Len(invoked) = 2
    /\ invoked[1].did.op = "update"
    /\ invoked[2].did.op = "add"
    /\ invoked[2].arg # TriggerUnion(call.streams, streams, hashOrder)
    /\ LateCallable \in ListedByAny(call.streams)
    /\ LateCallable \notin Range(InvokedSubs)

\* What C20 asks of a step.  When update goes on to its subscribers the
\* constant flags are what they were when update was called, and no subscriber
\* has been called yet; a step of the pass that does not raise leaves the flags
\* so; and a subscriber's assignment to a field whose flag is set is refused
\* and changes no stream.
C20_Step ==
    /\ (UpdateStep /\ pc' = "deliver") =>
          /\ constant' = constant
          /\ invoked' = <<>>
    /\ (pc = "deliver" /\ call.op = "update") =>
          LET e == invoked'[Len(invoked')]
          IN /\ ~e.raised => constant' = constant
             /\ (e.did.op = "setattr"
                    /\ constant[streams[e.did.stream].cls][e.did.field]) =>
                    /\ e.raised
                    /\ streams' = streams

\* C20: when update triggers, the constant flags of all fields have been
\* restored before the first subscriber is called: a subscriber running inside
\* the trigger of an update cannot change a constant field by assigning to it.
C20_RestoredBeforeTrigger == [][C20_Step]_vars

\* C20's case: inside the trigger of update(x=...) a subscriber assigned to x,
\* whose flag is set; the assignment raised, and x is what update made it.
C20_Witness ==
    /\ pc = "raised"
    /\ call.op = "update"
    /\ invoked # <<>>
    /\ invoked[Len(invoked)].did.op = "setattr"
    /\ invoked[Len(invoked)].raised
    /\ constant[streams[call.streams[1]].cls]["x"]
    /\ streams[call.streams[1]].vals["x"] = MaxVal

\* ----------------------------------------- delivery to subscribers that return
\* Streams whose subscribers, when called, return and call neither update nor
\* trigger.
NextReturning ==
    \/ \E c \in CtorCallsActing, src \in Sources, subs \in SubscribersArgs :
          Construct(c.cls, c.mapping, src, subs, c.preprocessors, EmptyDict)
    \/ \E s \in DOMAIN streams, c \in UserCallables : AddSubscriber(s, c)
    \/ \E s \in DOMAIN streams, c \in HiddenCallables : AddHidden(s, c)
    \/ \E s \in DOMAIN streams, trigger \in BOOLEAN, kwargs \in KwArgsCaller :
          Update(s, trigger, kwargs)
    \/ \E ss \in TriggerArgs : Trigger(ss)
    \/ \E c \in Callables : Invoke(c, FALSE)
    \/ Return

\* A subscriber that is being called returns, and the loop of lines 72-73 then
\* takes its next turn: the interpreter runs trigger on, synchronously, in the
\* caller's thread.  Nothing is asked of the callers: they may stop calling.
LoopRuns == WF_vars(\E c \in Callables : Invoke(c, FALSE))

SpecReturning == Init /\ [][NextReturning]_vars /\ LoopRuns

\* A trigger (or an update that triggers) has returned.
PassReturned ==
    /\ pc = "returned"
    /\ \/ call.op = "trigger"
       \/ call.op = "update" /\ call.trigger

\* C21: delivery is synchronous and terminates: a call of Stream.trigger (or of
\* update with trigger=True) on a finite list of streams whose subscribers each
\* return, and call neither update nor trigger, eventually returns; and when it
\* has returned, every subscriber of the union has been called and has
\* returned.
C21_DeliveryTerminates ==
    /\ (pc = "deliver") ~> PassReturned
    /\ [](PassReturned =>
            /\ pending = {}
            /\ Range(InvokedSubs) = ListedByAny(call.streams)
            /\ \A i \in DOMAIN invoked : ~invoked[i].raised)

\* C21's case: a trigger on two streams with two subscribers between them has
\* returned after calling both.
C21_Witness ==
    /\ PassReturned
    /\ call.op = "trigger"
    /\ Len(call.streams) = 2
    /\ Range(InvokedSubs) = Callables

====
